---- MODULE Spec2Model ----
(***************************************************************************)
(* nostr-watch: the relay cache (RelayMixin, its batch helper and its read *)
(* helpers), the trawler daemon (populateTrawler, maybeCheckRelays), the   *)
(* nocapd daemon (maybeBootstrap, initWorker, its schedules, syncRelaysIn, *)
(* stop), the generic layer of CacheBase, and the utilities they rest on   *)
(* (relayId,                                                               *)
(* chunkArray).  Each subsystem has its own specification: SpecCache,      *)
(* SpecTrawler, SpecNocapd, SpecBackend, SpecQuery, SpecSeed and SpecStats *)
(* (the pulses of the stats store).                                        *)
(*                                                                         *)
(* JavaScript values are modelled as follows.  An object is a function     *)
(* whose DOMAIN is the set of its own properties, so a missing property is *)
(* a name outside the DOMAIN.  Strings are strings, true / null are the    *)
(* strings "true" / "null", and undefined is the string Undefined.  A      *)
(* rejected promise is an outcome whose err names the error thrown.        *)
(***************************************************************************)
EXTENDS Integers, Sequences, FiniteSets, TLC

VARIABLES
  store,         \* the lmdb database behind db.$ : key -> stored Relay
  lastOp,        \* the cache call the last step settled: its arguments, the store at the call, its outcome
  calls,         \* the cache calls in flight, by caller: an upsert at its await, a batch in its loop
  config,        \* the loaded configuration of the trawler daemon
  busy,          \* config.js:366  let busy = false
  mainPc,        \* position of the daemon's default export (config.js:395-405)
  relays,        \* the candidate list bootstrap('trawler') returned
  workerPaused,  \* whether trawlWorker is paused
  pauseCalls,    \* trawlWorker.pause() calls that have completed
  resumeCalls,   \* trawlWorker.resume() calls
  addCalls,      \* the trawlQueue.add(name, data) calls made, in call order
  pending,       \* add calls whose promise has not settled yet
  queue,         \* jobs in trawlQueue, waiting
  active,        \* jobs the worker has taken, in the order it took them
  sweeps,        \* maybeCheckRelays invocations whose checkCache() is running
  sweepCount,    \* checkCache() calls started so far
  ticks,         \* scheduled maybeCheckRelays invocations so far
  lastCheck,     \* the last maybeCheckRelays invocation: what it saw and did
  ncConfig,      \* the loaded configuration of nocapd
  ncPc,          \* position of Nocapd (daemon.js:132-144) and of its initWorker (79-99)
  worker,        \* whether the BullMQ.Worker of $q has been constructed
  queuePaused,   \* whether the nocapd queue is paused
  jobs,          \* jobs of the nocapd queue, waiting
  jobCount,      \* jobs the populator has enqueued so far
  handlers,      \* route_work invocations in progress
  taken,         \* jobs the worker has taken so far, redeliveries included
  populators,    \* $checker.populator() invocations in progress
  popCalls,      \* $checker.populator() invocations so far
  schedules,     \* the recurring schedules registered with node-schedule
  popTicks,      \* ticks of the populator schedule so far
  syncTicks,     \* ticks of the relay-sync schedule so far
  syncs,         \* syncRelaysIn invocations in progress
  stopPc,        \* position of stop() of nocapd (daemon.js:125-129)
  lateAccess,    \* who has used the relay cache after rcache.$.close()
  backend,       \* the records behind a CacheBase backend: key -> value
  lastCall,      \* the last call of a CacheBase entry point and what it did
  lastQuery,     \* the last call of a read helper of the relay cache
  seedRun,       \* the syncRelaysIn run in progress, if any
  seedCalls,     \* syncRelaysIn runs started so far
  upserts,       \* checker upserts waiting at their await of exists()
  upsertCalls,   \* checker upserts started so far
  pulses,        \* stats.js:14  pulses: {} of the stats store
  lastAdd        \* the last call of an action of the stats store: its payload, pulses before it, its error

vars == << store, lastOp, calls, config, busy, mainPc, relays, workerPaused, pauseCalls,
           resumeCalls, addCalls, pending, queue, active, sweeps, sweepCount,
           ticks, lastCheck, ncConfig, ncPc, worker, queuePaused, jobs, jobCount,
           handlers, taken, populators, popCalls, schedules, popTicks, syncTicks,
           syncs, stopPc, lateAccess, backend, lastCall, lastQuery, seedRun, seedCalls, upserts, upsertCalls,
           pulses, lastAdd >>

cacheVars == << store, lastOp, calls >>

trawlerVars == << config, busy, mainPc, relays, workerPaused, pauseCalls,
                  resumeCalls, addCalls, pending, queue, active, sweeps,
                  sweepCount, ticks, lastCheck >>

nocapdVars == << ncConfig, ncPc, worker, queuePaused, jobs, jobCount, handlers,
                 taken, populators, popCalls, schedules, popTicks, syncTicks,
                 syncs, stopPc, lateAccess >>

\* the state of stop() of nocapd
stopVars == << stopPc, lateAccess >>

backendVars == << backend, lastCall >>

seedVars == << seedRun, seedCalls, upserts, upsertCalls >>

\* the variables of the subsystems other than the relay cache and the trawler
statsVars == << pulses, lastAdd >>

restVars == << nocapdVars, backendVars, lastQuery, seedVars, statsVars >>

----------------------------------------------------------------------------
(* Bounds of the model. *)

MaxBatch == 4      \* calls in flight and items handed to the batch calls among them, in all
MaxRelays == 4     \* longest candidate list handed to populateTrawler
MaxChunk == 3      \* largest configured chunk size
MaxTicks == 3      \* scheduled maybeCheckRelays invocations
MaxConcurrency == 2 \* largest configured worker concurrency
MaxJobs == 2       \* jobs the populator runs enqueue in all
MaxTaken == 3      \* jobs the worker takes in all, redeliveries included
MaxPopTicks == 2   \* ticks of the populator schedule
MaxSyncTicks == 1  \* ticks of the relay-sync schedule
MaxSeed == 2       \* longest list of urls bootstrap('nocapd') gives a seed
MaxSeeds == 2      \* syncRelaysIn runs
MaxUpserts == 2    \* checker upserts
MaxAdds == 2       \* addPulses calls

----------------------------------------------------------------------------
(* JavaScript values. *)

Undefined == "undefined#"

Urls == {"wss://a", "wss://b"}

Min(a, b) == IF a < b THEN a ELSE b

\* An object literal with the given properties; Undefined leaves the property out.
Obj(url, online, mark) ==
  [f \in (IF url = Undefined THEN {} ELSE {"url"})
         \cup (IF online = Undefined THEN {} ELSE {"online"})
         \cup (IF mark = Undefined THEN {} ELSE {"#"})
     |-> CASE f = "url" -> url
           [] f = "online" -> online
           [] f = "#" -> mark]

\* o.url, undefined when o has no such property
UrlOf(o) == IF "url" \in DOMAIN o THEN o["url"] ELSE Undefined

\* JavaScript truthiness of a url value: undefined and '' are falsy
Truthy(v) == v # Undefined /\ v # ""

\* { ...a, ...b }
Spread(a, b) ==
  [f \in DOMAIN a \cup DOMAIN b |-> IF f \in DOMAIN b THEN b[f] ELSE a[f]]

\* delete o[p]
Without(o, p) == [f \in DOMAIN o \ {p} |-> o[f]]

----------------------------------------------------------------------------
(* utils: hashRelay, relayId, chunkArray. *)

\* murmurhash.v3 (seed 0) of the urls of the model, as the decimal text that
\* the template literal of relayId prints.
MurmurV3 ==
  [u \in Urls \cup {""} |->
     CASE u = "" -> "0"
       [] u = "wss://a" -> "100893348"
       [] u = "wss://b" -> "2646336401"]

\* murmurhash.v3 reads key.length first: it throws a TypeError on undefined
hashThrows(relay) == relay = Undefined

hashRelay(relay) == MurmurV3[relay]

relayId(relay) == "Relay@" \o hashRelay(relay)

\* chunkArray throws when chunkSize <= 0
chunkArrayThrows(arr, chunkSize) == chunkSize <= 0

\* the loop of chunkArray from index i (0-based) on: arr.slice(i, i + chunkSize)
RECURSIVE chunksFrom(_, _, _)
chunksFrom(arr, chunkSize, i) ==
  IF i >= Len(arr) THEN <<>>
  ELSE << SubSeq(arr, i + 1, Min(i + chunkSize, Len(arr))) >>
       \o chunksFrom(arr, chunkSize, i + chunkSize)

\* chunkArray with slice(i, i + chunkSize + 1): neighbouring chunks overlap
RECURSIVE chunksOverlapping(_, _, _)
chunksOverlapping(arr, chunkSize, i) ==
  IF i >= Len(arr) THEN <<>>
  ELSE << SubSeq(arr, i + 1, Min(i + chunkSize + 1, Len(arr))) >>
       \o chunksOverlapping(arr, chunkSize, i + chunkSize)

chunkArray_sliceTooLong(arr, chunkSize) == chunksOverlapping(arr, chunkSize, 0)

chunkArray(arr, chunkSize) == chunksFrom(arr, chunkSize, 0)

RECURSIVE SeqsUpTo(_, _)
SeqsUpTo(S, n) ==
  IF n = 0 THEN {<<>>}
  ELSE LET shorter == SeqsUpTo(S, n - 1)
       IN shorter \cup { Append(q, x) : q \in { r \in shorter : Len(r) = n - 1 }, x \in S }

----------------------------------------------------------------------------
(* RelayMixin: the single-item operations.  Each operator takes the store  *)
(* and the argument and gives the outcome of the call: the store after it, *)
(* the value the promise resolves to (ret), the error it rejects with      *)
(* (err, "none" when it resolves) and the trace of validate calls and      *)
(* database accesses it made, in order.                                    *)

Outcome(s, ret, err, trace) ==
  [store |-> s, ret |-> ret, err |-> err, trace |-> trace]

\* the properties the constructor and init() give a RelayMixin instance
MixinProperties ==
  {"db", "batch", "get", "count", "is", "has", "requires", "supports", "limits"}

\* new Relay(RelayObj): the schema object carries the properties it is given
Relay(RelayObj) == RelayObj

\* db.$.put(key, value) and db.$.remove(key) are lmdb's, which is not among
\* the sources.  The store is modelled as a map from keys to records: what
\* a put has written is what the next get of the key returns, and a removed
\* key is absent from the next get.  lmdb's put and remove return promises;
\* that a get made before the promise has resolved sees the write already
\* is taken for granted here, and nothing in the sources settles it.
put(s, key, value) ==
  [k \in DOMAIN s \cup {key} |-> IF k = key THEN value ELSE s[k]]

remove(s, key) == [k \in DOMAIN s \ {key} |-> s[k]]

\* validate(RelayObj) passes: it throws when !RelayObj?.url
validate(RelayObj) == Truthy(UrlOf(RelayObj))

\* get.one(relayUrl) finds a record: db.$.get(relayId(relayUrl)) || false
get_one_found(s, relayUrl) == relayId(relayUrl) \in DOMAIN s

\* exists(url), for a url that can be hashed
exists(s, url) == get_one_found(s, url)

\* insert that keys the record by the url itself, without hashing it
insert_unhashedKey(s, RelayObj) ==
  IF ~validate(RelayObj)
  THEN Outcome(s, Undefined, "ValidationError", <<"validate">>)
  ELSE Outcome(put(s, "Relay@" \o RelayObj["url"], Relay(RelayObj)),
               "true", "none", <<"validate", "put">>)

insert(s, RelayObj) ==
  IF ~validate(RelayObj)
  THEN Outcome(s, Undefined, "ValidationError", <<"validate">>)
  ELSE Outcome(put(s, relayId(RelayObj["url"]), Relay(RelayObj)),
               "true", "none", <<"validate", "put">>)

\* an outcome reached after the accesses in `before`
After(before, out) == [out EXCEPT !.trace = before \o out.trace]

\* insertIfNotExists with the exists() test inverted away: it always inserts
insertIfNotExists_noGuard(s, RelayObj) ==
  IF hashThrows(UrlOf(RelayObj))
  THEN Outcome(s, Undefined, "TypeError", <<>>)
  ELSE After(<<"get">>, insert(s, RelayObj))

insertIfNotExists(s, RelayObj) ==
  IF hashThrows(UrlOf(RelayObj))
  THEN Outcome(s, Undefined, "TypeError", <<>>)
  ELSE IF exists(s, UrlOf(RelayObj))
  THEN Outcome(s, Undefined, "none", <<"get">>)
  ELSE After(<<"get">>, insert(s, RelayObj))

update(s, RelayObj) ==
  IF ~validate(RelayObj)
  THEN Outcome(s, Undefined, "ValidationError", <<"validate">>)
  ELSE IF "$" \notin MixinProperties
  THEN Outcome(s, Undefined, "TypeError", <<"validate">>)
  ELSE IF relayId(RelayObj["url"]) \notin DOMAIN s
  THEN Outcome(s, Undefined, "NotFound", <<"validate", "get">>)
  ELSE After(<<"validate", "get">>, insert(s, RelayObj))

patch(s, RelayObj) ==
  IF ~validate(RelayObj)
  THEN Outcome(s, Undefined, "ValidationError", <<"validate">>)
  ELSE IF "$" \notin MixinProperties
  THEN Outcome(s, Undefined, "TypeError", <<"validate">>)
  ELSE IF relayId(RelayObj["url"]) \notin DOMAIN s
  THEN Outcome(s, Undefined, "NotFound", <<"validate", "get">>)
  ELSE LET current == s[relayId(RelayObj["url"])]
           noUrl == Without(RelayObj, "url")
           stripped == IF "#" \in DOMAIN noUrl /\ noUrl["#"] # ""
                       THEN Without(noUrl, "#") ELSE noUrl
       IN After(<<"validate", "get">>, insert(s, Spread(current, stripped)))

\* upsert after its await of exists(): update when the test said true,
\* insert otherwise, on the store as it is by then
upsertResume(s, RelayObj, found) ==
  IF found THEN update(s, RelayObj) ELSE insert(s, RelayObj)

\* upsert run without interruption
upsert(s, RelayObj) ==
  IF ~validate(RelayObj)
  THEN Outcome(s, Undefined, "ValidationError", <<"validate">>)
  ELSE After(<<"validate", "get">>,
             upsertResume(s, RelayObj, exists(s, RelayObj["url"])))

\* RelayObjOrUrl?.url || RelayObjOrUrl, for a record: a record without a
\* truthy url is itself handed to the hash, which gives 0 for an object
deleteKey(RelayObj) ==
  IF Truthy(UrlOf(RelayObj)) THEN relayId(RelayObj["url"]) ELSE relayId("")

delete(s, RelayObj) ==
  IF deleteKey(RelayObj) \notin DOMAIN s
  THEN Outcome(s, Undefined, "NotFound", <<"get">>)
  ELSE Outcome(remove(s, deleteKey(RelayObj)), "true", "none", <<"get", "remove">>)

\* db.relay[key](RelayObj)
relayOp(key, s, RelayObj) ==
  CASE key = "insert" -> insert(s, RelayObj)
    [] key = "insertIfNotExists" -> insertIfNotExists(s, RelayObj)
    [] key = "upsert" -> upsert(s, RelayObj)
    [] key = "update" -> update(s, RelayObj)
    [] key = "patch" -> patch(s, RelayObj)
    [] key = "delete" -> delete(s, RelayObj)

----------------------------------------------------------------------------
(* relay_batch *)

batchKeys == {"insert", "insertIfNotExists", "upsert", "update", "delete"}

\* what a call with outcome out did to the store s: it added a record,
\* replaced one, removed one, or wrote nothing
Effect(s, out) ==
  IF Cardinality(DOMAIN out.store) > Cardinality(DOMAIN s) THEN "added"
  ELSE IF Cardinality(DOMAIN out.store) < Cardinality(DOMAIN s) THEN "removed"
  ELSE IF "put" \in { out.trace[i] : i \in 1..Len(out.trace) } THEN "replaced"
  ELSE "none"

\* the promise of the item's call db.relay[key](RelayObj), which the loop
\* awaits: what it settles with, and what the call did to the store s
Awaited(s, out) == [ret |-> out.ret, err |-> out.err, did |-> Effect(s, out)]

\* the loop without its try/catch around the push: a rejected call still
\* leaves an entry in result
batchItem_pushesFailures(acc, got) ==
  [results |-> Append(acc.results, got.ret),
   itemErrs |-> Append(acc.itemErrs, got.err)]

\* result.push(await ...) inside try / catch, once the awaited call has
\* settled with got: acc is the loop's [results, itemErrs] so far.  A call
\* that resolved has its value pushed to result; one that rejected is caught
\* and logged (itemErrs), and the loop goes on with the next item.
batchItem(acc, got) ==
  IF got.err = "none"
  THEN [results |-> Append(acc.results, got.ret),
        itemErrs |-> Append(acc.itemErrs, "none")]
  ELSE [results |-> acc.results,
        itemErrs |-> Append(acc.itemErrs, got.err)]

----------------------------------------------------------------------------
(* The relay cache as a state machine: any caller may make any call. *)

\* the records handed to the single-item calls: with a url, with a second
\* one, with a health field, with an empty url and without a url
InputRecords ==
  { Obj(u, Undefined, Undefined) : u \in Urls \cup {"", Undefined} }
    \cup { Obj("wss://a", "true", Undefined) }

\* a patch may also name the identity marker
PatchRecords ==
  InputRecords \cup { Obj("wss://a", "true", "Relay@1") }

BatchItems ==
  { Obj(Undefined, Undefined, Undefined), Obj("wss://a", Undefined, Undefined),
    Obj("wss://b", Undefined, Undefined), Obj("wss://a", "true", Undefined) }

\* the arrays handed to a batch call: the short ones, and the longest ones
\* whose records have pairwise distinct urls, exactly one lacking a url
BatchArrays ==
  { q \in SeqsUpTo(BatchItems, MaxBatch - 1) :
      \/ Len(q) < MaxBatch - 1
      \/ /\ Cardinality({ i \in 1..Len(q) : ~Truthy(UrlOf(q[i])) }) = 1
         /\ \A i, j \in 1..Len(q) : i # j => UrlOf(q[i]) # UrlOf(q[j]) }

\* the array of a batch call goes on with RelayObj after the items so far
NextOf(items, RelayObj) ==
  \E q \in BatchArrays :
    /\ Len(q) > Len(items)
    /\ SubSeq(q, 1, Len(items) + 1) = Append(items, RelayObj)

\* the callers of the cache: each has at most one call in flight
Callers == {"c1", "c2"}

NoOp ==
  [op |-> "none", key |-> "", arg |-> <<>>, items |-> <<>>, running |-> FALSE,
   pre |-> <<>>, ret |-> Undefined, err |-> "none", trace |-> <<>>,
   results |-> <<>>, itemErrs |-> <<>>, found |-> FALSE, pend |-> <<>>,
   got |-> <<>>, wrote |-> <<>>]

NoCalls == [c \in Callers |-> NoOp]

\* the calls in flight and the items handed so far to the batch calls
\* among them
InFlight ==
  LET load(c) == IF calls[c] = NoOp THEN 0 ELSE 1 + Len(calls[c].items)
  IN load("c1") + load("c2")

\* a caller has no call in flight, and so can make one
SomeoneFree == \E c \in Callers : calls[c] = NoOp

\* the caller that makes the next call: one that has none in flight
Free == CHOOSE c \in Callers : calls[c] = NoOp

\* what lastOp takes from a step that settles the call rec and leaves the
\* calls cs in flight: the whole record when it leaves none, and what the
\* call resolved to or rejected with otherwise
Settled(rec, cs) ==
  IF cs = NoCalls THEN rec
  ELSE [NoOp EXCEPT !.ret = rec.ret, !.err = rec.err, !.results = rec.results]

\* the record of a single-item call db.relay[op](RelayObj) that settles in
\* the step that makes it, and its outcome
Called(op, RelayObj, out) ==
  Settled([NoOp EXCEPT !.op = op, !.arg = RelayObj, !.pre = store,
                       !.ret = out.ret, !.err = out.err, !.trace = out.trace],
          calls)

Insert ==
  \E o \in InputRecords :
    /\ SomeoneFree
    /\ store' = insert(store, o).store
    /\ lastOp' = Called("insert", o, insert(store, o))
    /\ calls' = calls
    /\ UNCHANGED << trawlerVars, restVars >>

InsertIfNotExists ==
  \E o \in InputRecords :
    /\ SomeoneFree
    /\ store' = insertIfNotExists(store, o).store
    /\ lastOp' = Called("insertIfNotExists", o, insertIfNotExists(store, o))
    /\ calls' = calls
    /\ UNCHANGED << trawlerVars, restVars >>

Update ==
  \E o \in InputRecords :
    /\ SomeoneFree
    /\ store' = update(store, o).store
    /\ lastOp' = Called("update", o, update(store, o))
    /\ calls' = calls
    /\ UNCHANGED << trawlerVars, restVars >>

Patch ==
  \E o \in PatchRecords :
    /\ SomeoneFree
    /\ store' = patch(store, o).store
    /\ lastOp' = Called("patch", o, patch(store, o))
    /\ calls' = calls
    /\ UNCHANGED << trawlerVars, restVars >>

\* upsert(RelayObj) up to its await: validate, which rejects the call at
\* once when it throws, then exists(url), whose value is awaited
Upsert ==
  \E o \in InputRecords :
    /\ SomeoneFree
    /\ IF ~validate(o)
       THEN /\ lastOp' = Called("upsert", o, upsert(store, o))
            /\ calls' = calls
       ELSE /\ InFlight < MaxBatch
            /\ lastOp' = NoOp
            /\ calls' = [calls EXCEPT ![Free] =
                           [NoOp EXCEPT !.op = "upsert", !.arg = o, !.running = TRUE,
                                        !.trace = <<"validate", "get">>,
                                        !.found = exists(store, o["url"])]]
    /\ UNCHANGED << store, trawlerVars, restVars >>

\* an upsert goes on after its await and settles
UpsertAwaited ==
  \E c \in Callers :
    LET out == upsertResume(store, calls[c].arg, calls[c].found)
    IN /\ calls[c].op = "upsert"
       /\ store' = out.store
       /\ calls' = [calls EXCEPT ![c] = NoOp]
       /\ lastOp' = Settled([calls[c] EXCEPT !.running = FALSE, !.pre = store,
                                             !.ret = out.ret, !.err = out.err,
                                             !.trace = @ \o out.trace], calls')
       /\ UNCHANGED << trawlerVars, restVars >>

\* delete(RelayObj); delete(url) resolves to the same url
Delete ==
  \E o \in InputRecords :
    /\ SomeoneFree
    /\ store' = delete(store, o).store
    /\ lastOp' = Called("delete", o, delete(store, o))
    /\ calls' = calls
    /\ UNCHANGED << trawlerVars, restVars >>

\* db.relay.batch[key](RelayObjs) is called with an array: result = []
BatchCall ==
  \E key \in batchKeys :
    /\ SomeoneFree
    /\ InFlight < MaxBatch
    /\ lastOp' = NoOp
    /\ calls' = [calls EXCEPT ![Free] =
                   [NoOp EXCEPT !.op = "batch", !.key = key, !.running = TRUE]]
    /\ UNCHANGED << store, trawlerVars, restVars >>

\* the item's call is an upsert that goes past validate and so to its await
itemAwaits(key, RelayObj) == key = "upsert" /\ validate(RelayObj)

\* the loop takes the next item of the array, whatever it is, and calls
\* db.relay[key] with it: the call runs to its end, or to its await, and
\* the loop awaits its promise
BatchItem ==
  \E c \in Callers, o \in BatchItems :
    LET mine == calls[c]
        out == relayOp(mine.key, store, o)
    IN /\ mine.op = "batch"
       /\ mine.pend = <<>>
       /\ mine.got = <<>>
       /\ InFlight < MaxBatch
       /\ NextOf(mine.items, o)
       /\ lastOp' = NoOp
       /\ IF itemAwaits(mine.key, o)
          THEN /\ store' = store
               /\ calls' = [calls EXCEPT ![c] =
                              [mine EXCEPT !.items = Append(@, o), !.pend = << o >>,
                                           !.found = exists(store, o["url"])]]
          ELSE /\ store' = out.store
               /\ calls' = [calls EXCEPT ![c] =
                              [mine EXCEPT !.items = Append(@, o),
                                           !.got = << Awaited(store, out) >>]]
       /\ UNCHANGED << trawlerVars, restVars >>

\* the upsert of the loop's item goes on after its await of exists()
BatchItemResume ==
  \E c \in Callers :
    LET mine == calls[c]
        out == upsertResume(store, mine.pend[1], mine.found)
    IN /\ mine.op = "batch"
       /\ mine.pend # <<>>
       /\ lastOp' = NoOp
       /\ store' = out.store
       /\ calls' = [calls EXCEPT ![c] =
                      [mine EXCEPT !.pend = <<>>, !.got = << Awaited(store, out) >>]]
       /\ UNCHANGED << trawlerVars, restVars >>

\* the promise the loop awaits has settled: the loop pushes what it resolved
\* to, or catches what it rejected with
BatchItemPush ==
  \E c \in Callers :
    LET mine == calls[c]
        acc == batchItem([results |-> mine.results, itemErrs |-> mine.itemErrs],
                         mine.got[1])
    IN /\ mine.op = "batch"
       /\ mine.got # <<>>
       /\ lastOp' = NoOp
       /\ calls' = [calls EXCEPT ![c] =
                      [mine EXCEPT !.got = <<>>,
                                   !.results = acc.results,
                                   !.itemErrs = acc.itemErrs,
                                   !.wrote = Append(@, mine.got[1].did)]]
       /\ UNCHANGED << store, trawlerVars, restVars >>

\* the array is exhausted: return result
BatchReturn ==
  \E c \in Callers :
    /\ calls[c].op = "batch"
    /\ calls[c].pend = <<>>
    /\ calls[c].got = <<>>
    /\ calls' = [calls EXCEPT ![c] = NoOp]
    /\ lastOp' = Settled([calls[c] EXCEPT !.running = FALSE, !.ret = "array"], calls')
    /\ UNCHANGED << store, trawlerVars, restVars >>

\* db.relay.batch[key](RelayObjs) with something that is no array: a record
BatchNotArray ==
  \E key \in batchKeys, o \in {Obj("wss://a", Undefined, Undefined)} :
    /\ SomeoneFree
    /\ lastOp' = Settled([NoOp EXCEPT !.op = "batch", !.key = key, !.arg = o,
                                      !.pre = store, !.err = "NotArray"], calls)
    /\ UNCHANGED << store, calls, trawlerVars, restVars >>

----------------------------------------------------------------------------
(* The trawler daemon. *)

DefaultChunk == 50

\* the configurations: trawler.trawl_concurrent_relays and
\* trawler.check.enabled, each set or left out
Configs ==
  { Spread(c, e) :
      c \in {<<>>} \cup { [trawl_concurrent_relays |-> n] : n \in (-1)..MaxChunk },
      e \in {<<>>} \cup { [check_enabled |-> b] : b \in BOOLEAN } }

\* config?.trawler?.trawl_concurrent_relays || 50
relaysPerChunk(cfg) ==
  IF "trawl_concurrent_relays" \in DOMAIN cfg /\ cfg["trawl_concurrent_relays"] # 0
  THEN cfg["trawl_concurrent_relays"]
  ELSE DefaultChunk

\* config?.trawler?.check?.enabled || false
useCache(cfg) == "check_enabled" \in DOMAIN cfg /\ cfg["check_enabled"]

\* rdb.relay.count.all()
count_all(s) == Cardinality(DOMAIN s)

\* the trawlQueue.add calls of the forEach over the batches, in call order
RECURSIVE addJobs(_, _)
addJobs(batches, index) ==
  IF index >= Len(batches) THEN <<>>
  ELSE << [name |-> "trawlBatch" \o ToString(index),
           data |-> [relays |-> batches[index + 1]]] >>
       \o addJobs(batches, index + 1)

\* the guard without its test of busy
maybeCheckStarts_ignoresBusy(s, cfg, b) == count_all(s) > 0 /\ useCache(cfg)

\* maybeCheckRelays goes past its guard (config.js:382) and starts a sweep
maybeCheckStarts(s, cfg, b) == count_all(s) > 0 /\ useCache(cfg) /\ ~b

\* An invocation of maybeCheckRelays up to its await: it returns at the
\* guard, or sets busy and calls checkCache().  `by` is 0 for the startup
\* call of the default export and n for the n-th scheduled tick.
Invoke(by) ==
  LET starts == maybeCheckStarts(store, config, busy)
  IN /\ busy' = (IF starts THEN TRUE ELSE busy)
     /\ sweeps' = (IF starts THEN sweeps \cup {by} ELSE sweeps)
     /\ sweepCount' = (IF starts THEN sweepCount + 1 ELSE sweepCount)
     /\ lastCheck' = [by |-> by, busy |-> busy, seeded |-> count_all(store) > 0,
                      enabled |-> useCache(config), started |-> starts,
                      running |-> Cardinality(sweeps)
                                  + (IF starts THEN 1 ELSE 0)]

\* default export: schedules(), then await maybeCheckRelays()
Startup ==
  /\ mainPc = "start"
  /\ Invoke(0)
  /\ mainPc' = (IF maybeCheckStarts(store, config, busy) THEN "checking" ELSE "bootstrap")
  /\ UNCHANGED << cacheVars, restVars, config, relays, workerPaused, pauseCalls, resumeCalls,
                  addCalls, pending, queue, active, ticks >>

\* the schedule registered by schedules() fires
Tick ==
  /\ mainPc # "start"
  /\ ticks < MaxTicks
  /\ ticks' = ticks + 1
  /\ Invoke(ticks + 1)
  /\ UNCHANGED << cacheVars, restVars, config, mainPc, relays, workerPaused, pauseCalls,
                  resumeCalls, addCalls, pending, queue, active >>

\* checkCache() of invocation `by` resolves: busy = false
CheckCacheDone ==
  \E by \in sweeps :
    /\ sweeps' = sweeps \ {by}
    /\ busy' = FALSE
    /\ mainPc' = (IF by = 0 THEN "bootstrap" ELSE mainPc)
    /\ UNCHANGED << cacheVars, restVars, config, relays, workerPaused, pauseCalls, resumeCalls,
                    addCalls, pending, queue, active, sweepCount, ticks, lastCheck >>

\* checkCache() of invocation `by` rejects: the invocation ends at the await
CheckCacheFail ==
  \E by \in sweeps :
    /\ sweeps' = sweeps \ {by}
    /\ mainPc' = (IF by = 0 THEN "failed" ELSE mainPc)
    /\ UNCHANGED << cacheVars, restVars, config, busy, relays, workerPaused, pauseCalls,
                    resumeCalls, addCalls, pending, queue, active, sweepCount, ticks,
                    lastCheck >>

\* bootstrap('trawler') resolves with the candidate list; populateTrawler is
\* called and calls trawlWorker.pause()
Bootstrap ==
  \E seed \in SeqsUpTo(Urls, MaxRelays) :
    /\ mainPc = "bootstrap"
    /\ relays' = seed
    /\ workerPaused' = TRUE
    /\ mainPc' = "pausing"
    /\ UNCHANGED << cacheVars, restVars, config, busy, pauseCalls, resumeCalls, addCalls,
                    pending, queue, active, sweeps, sweepCount, ticks, lastCheck >>

\* pause() has resolved; the rest of populateTrawler runs without an await:
\* chunkArray, one trawlQueue.add per batch, resume().  No add is awaited:
\* each returns a promise, and its job reaches the queue when the queue's
\* backend has written it (AddSettles), after this block has run.
PopulateEnqueue ==
  /\ mainPc = "pausing"
  /\ ~chunkArrayThrows(relays, relaysPerChunk(config))
  /\ pauseCalls' = pauseCalls + 1
  /\ addCalls' = addCalls \o addJobs(chunkArray(relays, relaysPerChunk(config)), 0)
  /\ pending' = pending \o addJobs(chunkArray(relays, relaysPerChunk(config)), 0)
  /\ workerPaused' = FALSE
  /\ resumeCalls' = resumeCalls + 1
  /\ mainPc' = "done"
  /\ UNCHANGED << cacheVars, restVars, config, busy, relays, queue, active, sweeps, sweepCount,
                  ticks, lastCheck >>

\* pause() has resolved and chunkArray throws: populateTrawler rejects
PopulateThrows ==
  /\ mainPc = "pausing"
  /\ chunkArrayThrows(relays, relaysPerChunk(config))
  /\ pauseCalls' = pauseCalls + 1
  /\ mainPc' = "failed"
  /\ UNCHANGED << cacheVars, restVars, config, busy, relays, workerPaused, resumeCalls,
                  addCalls, pending, queue, active, sweeps, sweepCount, ticks,
                  lastCheck >>

\* the oldest pending trawlQueue.add reaches the queue
AddSettles ==
  /\ pending # <<>>
  /\ queue' = Append(queue, Head(pending))
  /\ pending' = Tail(pending)
  /\ UNCHANGED << cacheVars, restVars, config, busy, mainPc, relays, workerPaused, pauseCalls,
                  resumeCalls, addCalls, active, sweeps, sweepCount, ticks, lastCheck >>

\* the worker, not paused, takes the next job of the queue
WorkerTakes ==
  /\ ~workerPaused
  /\ queue # <<>>
  /\ active' = Append(active, Head(queue))
  /\ queue' = Tail(queue)
  /\ UNCHANGED << cacheVars, restVars, config, busy, mainPc, relays, workerPaused, pauseCalls,
                  resumeCalls, addCalls, pending, sweeps, sweepCount, ticks, lastCheck >>

NoCheck ==
  [by |-> -1, busy |-> FALSE, seeded |-> FALSE, enabled |-> FALSE,
   started |-> FALSE, running |-> 0]

\* nocapd has not started
NocapdIdle ==
  /\ ncConfig = <<>>
  /\ ncPc = "start"
  /\ worker = FALSE
  /\ queuePaused = FALSE
  /\ jobs = <<>>
  /\ jobCount = 0
  /\ handlers = {}
  /\ taken = 0
  /\ populators = {}
  /\ popCalls = 0
  /\ schedules = {}
  /\ popTicks = 0
  /\ syncTicks = 0
  /\ syncs = {}
  /\ stopPc = "none"
  /\ lateAccess = {}

NoCall ==
  [op |-> "none", key |-> "", value |-> "", pre |-> <<>>, prims |-> <<>>,
   ret |-> Undefined, err |-> "none"]

BackendIdle == backend = <<>> /\ lastCall = NoCall

NoQuery ==
  [fn |-> "none", key |-> "", relay |-> "", boxed |-> FALSE,
   arg |-> [network |-> "", nip |-> 0], nips |-> <<>>, flag |-> FALSE, n |-> 0,
   ret |-> Undefined, urls |-> {}, err |-> "none"]

QueryIdle == lastQuery = NoQuery

NoSeed ==
  [running |-> FALSE, relays |-> <<>>, items |-> <<>>, got |-> <<>>,
   results |-> <<>>, itemErrs |-> <<>>, pre |-> <<>>]

SeedIdle == seedRun = NoSeed /\ seedCalls = 0 /\ upserts = {} /\ upsertCalls = 0

NoAdd ==
  [calls |-> 0, op |-> "none", payload |-> <<>>, pre |-> <<>>, err |-> "none",
   others |-> FALSE]

StatsIdle == pulses = <<>> /\ lastAdd = NoAdd

TrawlerIdle ==
  /\ config = <<>>
  /\ busy = FALSE
  /\ mainPc = "start"
  /\ relays = <<>>
  /\ workerPaused = FALSE
  /\ pauseCalls = 0
  /\ resumeCalls = 0
  /\ addCalls = <<>>
  /\ pending = <<>>
  /\ queue = <<>>
  /\ active = <<>>
  /\ sweeps = {}
  /\ sweepCount = 0
  /\ ticks = 0
  /\ lastCheck = NoCheck

\* the daemon starts on a cache that is empty or was seeded by an earlier run
TrawlerInit ==
  /\ store \in { <<>>, insert(<<>>, Obj("wss://a", Undefined, Undefined)).store }
  /\ lastOp = NoOp
  /\ calls = NoCalls
  /\ config \in Configs
  /\ busy = FALSE
  /\ mainPc = "start"
  /\ relays = <<>>
  /\ workerPaused = FALSE
  /\ pauseCalls = 0
  /\ resumeCalls = 0
  /\ addCalls = <<>>
  /\ pending = <<>>
  /\ queue = <<>>
  /\ active = <<>>
  /\ sweeps = {}
  /\ sweepCount = 0
  /\ ticks = 0
  /\ lastCheck = NoCheck
  /\ NocapdIdle
  /\ BackendIdle
  /\ QueryIdle
  /\ SeedIdle
  /\ StatsIdle

TrawlerNext ==
  \/ Startup
  \/ Tick
  \/ CheckCacheDone
  \/ CheckCacheFail
  \/ Bootstrap
  \/ PopulateEnqueue
  \/ PopulateThrows
  \/ AddSettles
  \/ WorkerTakes

SpecTrawler == TrawlerInit /\ [][TrawlerNext]_vars

CacheInit ==
  /\ store = <<>>
  /\ lastOp = NoOp
  /\ calls = NoCalls
  /\ TrawlerIdle
  /\ NocapdIdle
  /\ BackendIdle
  /\ QueryIdle
  /\ SeedIdle
  /\ StatsIdle

CacheNext ==
  \/ Insert
  \/ InsertIfNotExists
  \/ Update
  \/ Patch
  \/ Upsert
  \/ UpsertAwaited
  \/ Delete
  \/ BatchCall
  \/ BatchItem
  \/ BatchItemResume
  \/ BatchItemPush
  \/ BatchReturn
  \/ BatchNotArray

SpecCache == CacheInit /\ [][CacheNext]_vars

----------------------------------------------------------------------------
(* nocapd: initWorker, the populator and relay-sync schedules, and the     *)
(* worker of the queue.  Times are in milliseconds.                        *)

DefaultConcurrency == 1

\* the configurations: nocapd.bullmq.worker.concurrency and
\* nocapd.seed.options.events, each set or left out
NocapdConfigs ==
  { Spread(c, e) :
      c \in {<<>>} \cup { [concurrency |-> n] : n \in 0..MaxConcurrency },
      e \in {<<>>, [seed_events |-> TRUE]} }

\* the concurrency one above what initWorker computes
concurrency_offByOne(cfg) ==
  IF "concurrency" \in DOMAIN cfg /\ cfg["concurrency"] # 0
  THEN cfg["concurrency"] + 1
  ELSE DefaultConcurrency + 1

\* config?.nocapd?.bullmq?.worker?.concurrency? config...concurrency: 1
concurrency(cfg) ==
  IF "concurrency" \in DOMAIN cfg /\ cfg["concurrency"] # 0
  THEN cfg["concurrency"]
  ELSE DefaultConcurrency

queueOpts == [lockDuration |-> 2 * 60 * 1000]

\* the time that passes in one step of the clock
ClockStep == queueOpts.lockDuration \div 2

\* what schedulePopulator and scheduleSyncRelays register: the latter
\* returns at once when no seed events are configured
registered(cfg) ==
  {"populator"} \cup (IF "seed_events" \in DOMAIN cfg THEN {"syncRelays"} ELSE {})

\* a populator schedule that waits for the populator runs in progress
populatorTickFires_whenIdle(sched, runs) == "populator" \in sched /\ runs = {}

\* the job of schedulePopulator fires on every tick of its rule: the
\* callback awaits the populator, the schedule does not await the callback
populatorTickFires(sched, runs) == "populator" \in sched

\* a use of the relay cache by a schedule or a job handler: it is a late one
\* when rcache.$.close() has run
CacheUse(who) ==
  lateAccess' = (IF stopPc = "closed" THEN lateAccess \cup {who} ELSE lateAccess)

\* parseRelayNetwork(r), for the urls of the model
parseRelayNetwork(r) == "clearnet"

\* the record syncRelaysIn builds for a url
Skeletal(r) ==
  [url |-> r, online |-> "null", network |-> parseRelayNetwork(r), info |-> "",
   dns |-> "", geo |-> "", ssl |-> ""]

\* the batch operation syncRelaysIn calls: rcache.relay.batch.insertIfNotExists
seedKey == "insertIfNotExists"

\* a syncRelaysIn invocation at its await of bootstrap('nocapd')
Syncing(id) ==
  [id |-> id, pc |-> "bootstrap", items |-> <<>>, got |-> <<>>, results |-> <<>>]

\* maybeBootstrap, which Nocapd awaits before initWorker: syncRelaysIn is
\* called when the cache holds no relay
MaybeBootstrap ==
  /\ ncPc = "start"
  /\ ncPc' = (IF count_all(store) = 0 THEN "bootstrapping" ELSE "init")
  /\ syncs' = (IF count_all(store) = 0 THEN {Syncing(0)} ELSE syncs)
  /\ UNCHANGED << cacheVars, trawlerVars, statsVars, backendVars, lastQuery, seedVars,
                  stopVars, ncConfig, worker, queuePaused, jobs, jobCount,
                  handlers, taken, populators, popCalls, schedules, popTicks,
                  syncTicks >>

\* initWorker up to its first await: the BullMQ.Worker is constructed, then
\* $q.checker.populator() is called
InitWorker ==
  /\ ncPc = "init"
  /\ worker' = TRUE
  /\ populators' = {0}
  /\ popCalls' = popCalls + 1
  /\ ncPc' = "populating"
  /\ UNCHANGED << cacheVars, trawlerVars, statsVars, backendVars, lastQuery, seedVars, stopVars, ncConfig,
                  queuePaused, jobs, jobCount, handlers, taken, schedules, popTicks,
                  syncTicks, syncs >>

\* a populator run in progress adds a job to the queue
PopulatorEnqueue ==
  \E i \in populators :
    /\ jobCount < MaxJobs
    /\ jobCount' = jobCount + 1
    /\ jobs' = Append(jobs, jobCount + 1)
    /\ UNCHANGED << cacheVars, trawlerVars, statsVars, backendVars, lastQuery, seedVars, stopVars, ncConfig,
                    ncPc, worker, queuePaused, handlers, taken, populators, popCalls,
                    schedules, popTicks, syncTicks, syncs >>

\* a populator run resolves.  When it is the run initWorker awaits,
\* initWorker goes on: schedulePopulator, scheduleSyncRelays, $q.resume()
PopulatorDone ==
  \E i \in populators :
    /\ populators' = populators \ {i}
    /\ schedules' = (IF i = 0 THEN registered(ncConfig) ELSE schedules)
    /\ ncPc' = (IF i = 0 THEN "resuming" ELSE ncPc)
    /\ UNCHANGED << cacheVars, trawlerVars, statsVars, backendVars, lastQuery, seedVars, stopVars, ncConfig,
                    worker, queuePaused, jobs, jobCount, handlers, taken, popCalls,
                    popTicks, syncTicks, syncs >>

\* $q.resume() resolves: the queue is not paused; initWorker returns $q
Resume ==
  /\ ncPc = "resuming"
  /\ queuePaused' = FALSE
  /\ ncPc' = "ready"
  /\ UNCHANGED << cacheVars, trawlerVars, statsVars, backendVars, lastQuery, seedVars, stopVars, ncConfig,
                  worker, jobs, jobCount, handlers, taken, populators, popCalls,
                  schedules, popTicks, syncTicks, syncs >>

\* the populator schedule fires: $checker.populator() is called and reads
\* the relay cache
PopulatorTick ==
  /\ populatorTickFires(schedules, populators)
  /\ popTicks < MaxPopTicks
  /\ popTicks' = popTicks + 1
  /\ populators' = populators \cup {popTicks + 1}
  /\ popCalls' = popCalls + 1
  /\ CacheUse("populator")
  /\ UNCHANGED << cacheVars, trawlerVars, statsVars, backendVars, lastQuery, seedVars, stopPc, ncConfig,
                  ncPc, worker, queuePaused, jobs, jobCount, handlers, taken,
                  schedules, syncTicks, syncs >>

\* the relay-sync schedule fires: syncRelaysIn is called and awaits
\* bootstrap('nocapd')
SyncTick ==
  /\ "syncRelays" \in schedules
  /\ syncTicks < MaxSyncTicks
  /\ syncTicks' = syncTicks + 1
  /\ syncs' = syncs \cup {Syncing(syncTicks + 1)}
  /\ UNCHANGED << cacheVars, trawlerVars, statsVars, backendVars, lastQuery, seedVars,
                  stopVars, ncConfig, ncPc, worker, queuePaused, jobs, jobCount,
                  handlers, taken, populators, popCalls, schedules, popTicks >>

\* bootstrap('nocapd') resolves with the urls of the seed: syncRelaysIn
\* builds their skeletal records and calls batch.insertIfNotExists
SyncBootstrapped ==
  \E r \in syncs, urls \in SeqsUpTo(Urls, MaxSeed) :
    /\ r.pc = "bootstrap"
    /\ syncs' = (syncs \ {r})
                  \cup {[r EXCEPT !.pc = "batch",
                                  !.items = [i \in 1..Len(urls) |-> Skeletal(urls[i])]]}
    /\ UNCHANGED << cacheVars, trawlerVars, statsVars, backendVars, lastQuery, seedVars,
                    stopVars, ncConfig, ncPc, worker, queuePaused, jobs, jobCount,
                    handlers, taken, populators, popCalls, schedules, popTicks,
                    syncTicks >>

\* the batch loop of a syncRelaysIn calls insertIfNotExists with its next
\* record and awaits the call's promise
SyncItem ==
  \E r \in syncs :
    LET out == relayOp(seedKey, store, Head(r.items))
    IN /\ r.pc = "batch"
       /\ r.items # <<>>
       /\ r.got = <<>>
       /\ store' = out.store
       /\ syncs' = (syncs \ {r})
                     \cup {[r EXCEPT !.items = Tail(@), !.got = << Awaited(store, out) >>]}
       /\ CacheUse("syncRelaysIn")
       /\ UNCHANGED << lastOp, calls, trawlerVars, statsVars, backendVars, lastQuery,
                       seedVars, stopPc, ncConfig, ncPc, worker, queuePaused, jobs,
                       jobCount, handlers, taken, populators, popCalls, schedules,
                       popTicks, syncTicks >>

\* the promise the loop awaits has settled: the loop pushes what it resolved
\* to
SyncPush ==
  \E r \in syncs :
    /\ r.got # <<>>
    /\ syncs' = (syncs \ {r})
                  \cup {[r EXCEPT !.got = <<>>,
                                  !.results = batchItem([results |-> @, itemErrs |-> <<>>],
                                                        r.got[1]).results]}
    /\ UNCHANGED << cacheVars, trawlerVars, statsVars, backendVars, lastQuery, seedVars,
                    stopVars, ncConfig, ncPc, worker, queuePaused, jobs, jobCount,
                    handlers, taken, populators, popCalls, schedules, popTicks,
                    syncTicks >>

\* the batch of a syncRelaysIn returns; syncRelaysIn logs the length of the
\* result and returns it.  maybeBootstrap, which awaits it, returns then,
\* and Nocapd goes on to initWorker
SyncReturn ==
  \E r \in syncs :
    /\ r.pc = "batch"
    /\ r.items = <<>>
    /\ r.got = <<>>
    /\ syncs' = syncs \ {r}
    /\ ncPc' = (IF r.id = 0 THEN "init" ELSE ncPc)
    /\ UNCHANGED << cacheVars, trawlerVars, statsVars, backendVars, lastQuery, seedVars,
                    stopVars, ncConfig, worker, queuePaused, jobs, jobCount,
                    handlers, taken, populators, popCalls, schedules, popTicks,
                    syncTicks >>

\* the worker, running since its construction and until stop() stops it,
\* takes the next job when the queue is not paused and it has a free slot
WorkerTake ==
  /\ worker
  /\ stopPc = "none"
  /\ ~queuePaused
  /\ jobs # <<>>
  /\ Cardinality(handlers) < concurrency(ncConfig)
  /\ taken < MaxTaken
  /\ taken' = taken + 1
  /\ handlers' = handlers \cup {[id |-> taken + 1, job |-> Head(jobs), held |-> 0,
                                 lock |-> TRUE]}
  /\ jobs' = Tail(jobs)
  /\ UNCHANGED << cacheVars, trawlerVars, statsVars, backendVars, lastQuery, seedVars, stopVars, ncConfig,
                  ncPc, worker, queuePaused, jobCount, populators, popCalls,
                  schedules, popTicks, syncTicks, syncs >>

\* route_work of a job returns, its result written to the relay cache
JobDone ==
  \E h \in handlers :
    /\ handlers' = handlers \ {h}
    /\ CacheUse("job")
    /\ UNCHANGED << cacheVars, trawlerVars, statsVars, backendVars, lastQuery, seedVars, stopPc, ncConfig,
                    ncPc, worker, queuePaused, jobs, jobCount, taken, populators,
                    popCalls, schedules, popTicks, syncTicks, syncs >>

\* time passes for the jobs being processed
TimePasses ==
  /\ \E h \in handlers : h.lock /\ h.held <= queueOpts.lockDuration
  /\ handlers' = { [h EXCEPT !.held = Min(@ + ClockStep,
                                          queueOpts.lockDuration + ClockStep)] :
                   h \in handlers }
  /\ UNCHANGED << cacheVars, trawlerVars, statsVars, backendVars, lastQuery, seedVars, stopVars, ncConfig,
                  ncPc, worker, queuePaused, jobs, jobCount, taken, populators,
                  popCalls, schedules, popTicks, syncTicks, syncs >>

\* the job of handler h has been held for longer than lockDuration: the
\* queue takes it for abandoned, its lock is gone and the job is back in
\* the queue, its handler still running
Abandon(h) ==
  /\ h.lock
  /\ h.held > queueOpts.lockDuration
  /\ handlers' = (handlers \ {h}) \cup {[h EXCEPT !.lock = FALSE]}
  /\ jobs' = Append(jobs, h.job)
  /\ UNCHANGED << cacheVars, trawlerVars, statsVars, backendVars, lastQuery, seedVars, stopVars, ncConfig,
                  ncPc, worker, queuePaused, jobCount, taken, populators, popCalls,
                  schedules, popTicks, syncTicks, syncs >>

LockExpires == \E h \in handlers : Abandon(h)

\* stop() is called on what Nocapd() returned: $q.worker.stop() is called
\* and the worker takes no further job.  The schedules stay registered.
Stop ==
  /\ ncPc = "ready"
  /\ stopPc = "none"
  /\ stopPc' = "stopping"
  /\ UNCHANGED << cacheVars, trawlerVars, statsVars, backendVars, lastQuery, seedVars,
                  lateAccess, ncConfig, ncPc, worker, queuePaused, jobs, jobCount,
                  handlers, taken, populators, popCalls, schedules, popTicks,
                  syncTicks, syncs >>

\* $q.worker.stop() resolves when the jobs in progress have returned;
\* stop() goes on to rcache.$.close()
CloseCache ==
  /\ stopPc = "stopping"
  /\ handlers = {}
  /\ stopPc' = "closed"
  /\ UNCHANGED << cacheVars, trawlerVars, statsVars, backendVars, lastQuery, seedVars,
                  lateAccess, ncConfig, ncPc, worker, queuePaused, jobs, jobCount,
                  handlers, taken, populators, popCalls, schedules, popTicks,
                  syncTicks, syncs >>

\* nocapd starts on a cache that is empty or holds a relay from an earlier
\* run, and on a queue that an earlier run left paused or not
NocapdInit ==
  /\ store \in {<<>>, put(<<>>, relayId("wss://a"), Skeletal("wss://a"))}
  /\ lastOp = NoOp
  /\ calls = NoCalls
  /\ TrawlerIdle
  /\ BackendIdle
  /\ QueryIdle
  /\ SeedIdle
  /\ StatsIdle
  /\ ncConfig \in NocapdConfigs
  /\ queuePaused \in BOOLEAN
  /\ ncPc = "start"
  /\ worker = FALSE
  /\ jobs = <<>>
  /\ jobCount = 0
  /\ handlers = {}
  /\ taken = 0
  /\ populators = {}
  /\ popCalls = 0
  /\ schedules = {}
  /\ popTicks = 0
  /\ syncTicks = 0
  /\ syncs = {}
  /\ stopPc = "none"
  /\ lateAccess = {}

NocapdNext ==
  \/ MaybeBootstrap
  \/ SyncBootstrapped
  \/ SyncItem
  \/ SyncPush
  \/ SyncReturn
  \/ InitWorker
  \/ PopulatorEnqueue
  \/ PopulatorDone
  \/ Resume
  \/ PopulatorTick
  \/ SyncTick
  \/ WorkerTake
  \/ JobDone
  \/ TimePasses
  \/ LockExpires
  \/ Stop
  \/ CloseCache

SpecNocapd == NocapdInit /\ [][NocapdNext]_vars

----------------------------------------------------------------------------
(* CacheBase: the generic layer over a backend's primitives.  A call gives *)
(* the backend after it, its return value, the error it throws and the     *)
(* writing primitives it invoked, each with the arguments it was handed;   *)
(* an argument left out of a call arrives as undefined.                    *)

Values == {"v1", "v2"}

Did2(b, ret, err, prims) == [backend |-> b, ret |-> ret, err |-> err, prims |-> prims]

Prim(name, relay, value) == [prim |-> name, key |-> relay, value |-> value]

\* the backend's _relayGet: the stored value, undefined when there is none
_relayGet(b, relay) == IF relay \in DOMAIN b THEN b[relay] ELSE Undefined

\* the backend's _relayInsert: stores the value and returns the record's id
_relayInsert(b, relay, value) ==
  Did2(put(b, relay, value), "id:" \o relay, "none", << Prim("insert", relay, value) >>)

\* the backend's _relayUpdate: stores the value and returns true
_relayUpdate(b, relay, value) ==
  Did2(put(b, relay, value), "true", "none", << Prim("update", relay, value) >>)

\* the backend's _relayPatch: stores the value and returns true.  Like the
\* other primitives it is the override of a concrete backend; CacheBase
\* itself declares it with an empty body (CacheBase.ts:64)
_relayPatch(b, relay, value) ==
  Did2(put(b, relay, value), "true", "none", << Prim("patch", relay, value) >>)

relayGet(b, relay) == _relayGet(b, relay)

relayExists(b, relayUrl) == relayGet(b, relayUrl) # Undefined

\* relayInsert(relay, value) calls this._relayInsert(relay)
relayInsert(b, relay, value) == _relayInsert(b, relay, Undefined)

relayInsertIfNotExists(b, relay, value) ==
  IF ~relayExists(b, relay) THEN relayInsert(b, relay, value)
  ELSE Did2(b, Undefined, "none", <<>>)

relayUpsert(b, relay, value) ==
  IF relayExists(b, relay) THEN _relayUpdate(b, relay, value)
  ELSE _relayInsert(b, relay, value)

\* relayUpdate() declares no parameters: its body names relay and value,
\* which nothing binds, so evaluating the arguments throws a ReferenceError
relayUpdate(b, relay, value) == Did2(b, Undefined, "ReferenceError", <<>>)

\* relayPatch(relay, value) hands both to the backend's patch primitive
relayPatch(b, relay, value) == _relayPatch(b, relay, value)

\* the record of a call of a CacheBase entry point and its outcome
Made(op, relay, value, out) ==
  [op |-> op, key |-> relay, value |-> value, pre |-> backend, prims |-> out.prims,
   ret |-> out.ret, err |-> out.err]

RelayInsert ==
  \E relay \in Urls, value \in Values :
    /\ backend' = relayInsert(backend, relay, value).backend
    /\ lastCall' = Made("relayInsert", relay, value, relayInsert(backend, relay, value))
    /\ UNCHANGED << cacheVars, trawlerVars, statsVars, nocapdVars, lastQuery, seedVars >>

RelayInsertIfNotExists ==
  \E relay \in Urls, value \in Values :
    /\ backend' = relayInsertIfNotExists(backend, relay, value).backend
    /\ lastCall' = Made("relayInsertIfNotExists", relay, value,
                        relayInsertIfNotExists(backend, relay, value))
    /\ UNCHANGED << cacheVars, trawlerVars, statsVars, nocapdVars, lastQuery, seedVars >>

RelayUpsert ==
  \E relay \in Urls, value \in Values :
    /\ backend' = relayUpsert(backend, relay, value).backend
    /\ lastCall' = Made("relayUpsert", relay, value, relayUpsert(backend, relay, value))
    /\ UNCHANGED << cacheVars, trawlerVars, statsVars, nocapdVars, lastQuery, seedVars >>

RelayUpdate ==
  \E relay \in Urls, value \in Values :
    /\ backend' = relayUpdate(backend, relay, value).backend
    /\ lastCall' = Made("relayUpdate", relay, value, relayUpdate(backend, relay, value))
    /\ UNCHANGED << cacheVars, trawlerVars, statsVars, nocapdVars, lastQuery, seedVars >>

RelayPatch ==
  \E relay \in Urls, value \in Values :
    /\ backend' = relayPatch(backend, relay, value).backend
    /\ lastCall' = Made("relayPatch", relay, value, relayPatch(backend, relay, value))
    /\ UNCHANGED << cacheVars, trawlerVars, statsVars, nocapdVars, lastQuery, seedVars >>

BackendInit ==
  /\ store = <<>>
  /\ lastOp = NoOp
  /\ calls = NoCalls
  /\ TrawlerIdle
  /\ NocapdIdle
  /\ QueryIdle
  /\ SeedIdle
  /\ StatsIdle
  /\ backend = <<>>
  /\ lastCall = NoCall

BackendNext ==
  \/ RelayInsert
  \/ RelayInsertIfNotExists
  \/ RelayUpsert
  \/ RelayUpdate
  \/ RelayPatch

SpecBackend == BackendInit /\ [][BackendNext]_vars

----------------------------------------------------------------------------
(* The read helpers of the relay cache: relay_get, relay_count and         *)
(* relay_supports.  The result of a query is modelled as the set of the    *)
(* keys of its rows, one row per matching record, so its length is the     *)
(* set's cardinality.  An array of NIP numbers is a sequence; index i of   *)
(* the array is element i + 1 of the sequence.                             *)

\* the records the read helpers are run on
QueryRecords ==
  UNION { { [url |-> u, connect |-> "true", network |-> "clearnet",
             info |-> [supported_nips |-> <<1, 11>>]],
            [url |-> u, network |-> "tor",
             info |-> [supported_nips |-> <<1>>, payment_required |-> "true"]],
            [url |-> u],
            [url |-> u, connect |-> "true", network |-> "clearnet",
             supported_nips |-> <<11>>] } : u \in Urls }

Networks == {"clearnet", "tor"}

Nips == {1, 11, 99}

NipLists == { <<>>, <<1>>, <<1, 11>>, <<99>> }

\* the methods of class RelayMixin
MixinMethods ==
  {"init", "insert", "insertIfNotExists", "update", "patch", "upsert", "delete",
   "validate", "select", "exists", "retention"}

\* the own properties of the object relay_get builds
getKeys ==
  {"db", "one", "all", "allIds", "online", "network", "public", "paid", "dead",
   "supportsNip", "doesNotSupportNip"}

\* the own properties of the object relay_supports builds
supportsKeys == {"db", "nip", "nips", "nips_single", "nips_many"}

\* array.includes(nip)
includes(array, nip) == \E i \in 1..Len(array) : array[i] = nip

\* the records of s that have the property
Having(s, property) == { k \in DOMAIN s : property \in DOMAIN s[k] }

\* the rows of db.$.select(..).from(Relay).where({ Relay: { [property]: test } }):
\* the records that have the property and whose value passes the test;
\* passes[k] is the outcome of the test on the value of record k
where(s, property, passes) == { k \in Having(s, property) : passes[k] }

Rows(rows) == [defined |-> TRUE, rows |-> rows]

\* value.payment_required is true
paymentRequired(value) ==
  "payment_required" \in DOMAIN value /\ value["payment_required"] = "true"

\* db.relay.get[fnkey](...args): arg carries the network and the nip asked for
get(fnkey, s, arg) ==
  CASE fnkey = "all" -> Rows(DOMAIN s)
    [] fnkey = "allIds" -> Rows(DOMAIN s)
    [] fnkey = "online" ->
         Rows(where(s, "connect",
                    [k \in Having(s, "connect") |-> s[k]["connect"] = "true"]))
    [] fnkey = "network" ->
         Rows(where(s, "network",
                    [k \in Having(s, "network") |-> s[k]["network"] = arg.network]))
    [] fnkey = "public" ->
         Rows(where(s, "info",
                    [k \in Having(s, "info") |-> ~paymentRequired(s[k]["info"])]))
    [] fnkey = "paid" ->
         Rows(where(s, "info",
                    [k \in Having(s, "info") |-> paymentRequired(s[k]["info"])]))
    [] fnkey = "dead" -> [defined |-> FALSE, rows |-> {}]
    [] fnkey = "supportsNip" ->
         Rows(where(s, "supported_nips",
                    [k \in Having(s, "supported_nips") |->
                       includes(s[k]["supported_nips"], arg.nip)]))
    [] fnkey = "doesNotSupportNip" ->
         Rows(where(s, "supported_nips",
                    [k \in Having(s, "supported_nips") |->
                       ~includes(s[k]["supported_nips"], arg.nip)]))

\* the properties of the object relay_count builds: one for each function
\* of db.relay.get, less one; all is set anew
countKeys == ((getKeys \ {"db"}) \ {"one"}) \cup {"all"}

\* the wrapper relay_count builds for fnkey, the branches of its
\* conditional the wrong way round
countOf_branchesSwapped(fnkey, s, arg) ==
  LET r == get(fnkey, s, arg)
  IN IF r.defined /\ Cardinality(r.rows) # 0 THEN 0 ELSE Cardinality(r.rows)

\* the wrapper relay_count builds for fnkey:
\* get[fnkey](...args)?.length ? get[fnkey](...args).length : 0
countOf(fnkey, s, arg) ==
  LET r == get(fnkey, s, arg)
  IN IF r.defined /\ Cardinality(r.rows) # 0 THEN Cardinality(r.rows) ELSE 0

\* db.relay.count[fnkey](...args): fns.all = fns.allIds
count(fnkey, s, arg) ==
  IF fnkey = "all" THEN countOf("allIds", s, arg) ELSE countOf(fnkey, s, arg)

Answer(ret, err) == [ret |-> ret, err |-> err]

\* supports.nip(relay, nip).  A string is an instance of String only when
\* it is a String object (boxed); for an ordinary string the else branch
\* runs and calls this.db.relay.all, which RelayMixin does not have.  The
\* other branch names relayUrl, which nothing binds.
supports_nip(s, relay, boxed, nip) ==
  IF boxed THEN Answer(Undefined, "ReferenceError")
  ELSE IF "all" \notin MixinMethods \cup MixinProperties
  THEN Answer(Undefined, "TypeError")
  ELSE Answer("rows", "none")

\* supports.nips(relay, nips, supportsAll), nips an array: it calls
\* this.nipsSingle or this.nipsMany; the object has nips_single and nips_many
supports_nips(s, relay, boxed, nips, supportsAll) ==
  IF boxed
  THEN IF "nipsSingle" \notin supportsKeys THEN Answer(Undefined, "TypeError")
       ELSE Answer("map", "none")
  ELSE IF relay = "null"
  THEN IF "nipsMany" \notin supportsKeys THEN Answer(Undefined, "TypeError")
       ELSE Answer("map", "none")
  ELSE Answer(Undefined, "ArgumentError")

NoArg == [network |-> "", nip |-> 0]

QueryInsert ==
  \E o \in QueryRecords :
    /\ store' = insert(store, o).store
    /\ lastQuery' = [NoQuery EXCEPT !.fn = "insert", !.relay = o.url]
    /\ UNCHANGED << lastOp, calls, trawlerVars, statsVars, nocapdVars, backendVars, seedVars >>

QueryDelete ==
  \E u \in Urls :
    /\ store' = delete(store, [url |-> u]).store
    /\ lastQuery' = [NoQuery EXCEPT !.fn = "delete", !.relay = u,
                                    !.err = delete(store, [url |-> u]).err]
    /\ UNCHANGED << lastOp, calls, trawlerVars, statsVars, nocapdVars, backendVars, seedVars >>

\* db.relay.count[fnkey](...args)
Count ==
  \E fnkey \in countKeys, network \in Networks, nip \in Nips :
    /\ lastQuery' = [NoQuery EXCEPT !.fn = "count", !.key = fnkey,
                                    !.arg = [network |-> network, nip |-> nip],
                                    !.n = count(fnkey, store,
                                                [network |-> network, nip |-> nip])]
    /\ UNCHANGED << cacheVars, trawlerVars, statsVars, nocapdVars, backendVars, seedVars >>

\* db.relay.supports.nip(relay, nip), relay a url
SupportsNip ==
  \E relay \in Urls, boxed \in BOOLEAN, nip \in Nips :
    /\ lastQuery' = [NoQuery EXCEPT !.fn = "supports.nip", !.relay = relay,
                                    !.boxed = boxed,
                                    !.arg = [network |-> "", nip |-> nip],
                                    !.ret = supports_nip(store, relay, boxed, nip).ret,
                                    !.err = supports_nip(store, relay, boxed, nip).err]
    /\ UNCHANGED << cacheVars, trawlerVars, statsVars, nocapdVars, backendVars, seedVars >>

\* db.relay.supports.nips(relay, nips, supportsAll), relay a url or null
SupportsNips ==
  \E relay \in Urls \cup {"null"}, boxed \in BOOLEAN, nips \in NipLists,
     supportsAll \in BOOLEAN :
    /\ boxed => relay # "null"
    /\ lastQuery' = [NoQuery EXCEPT
                       !.fn = "supports.nips", !.relay = relay, !.boxed = boxed,
                       !.nips = nips, !.flag = supportsAll,
                       !.ret = supports_nips(store, relay, boxed, nips, supportsAll).ret,
                       !.err = supports_nips(store, relay, boxed, nips, supportsAll).err]
    /\ UNCHANGED << cacheVars, trawlerVars, statsVars, nocapdVars, backendVars, seedVars >>

QueryInit ==
  /\ store = <<>>
  /\ lastOp = NoOp
  /\ calls = NoCalls
  /\ TrawlerIdle
  /\ NocapdIdle
  /\ BackendIdle
  /\ SeedIdle
  /\ StatsIdle
  /\ lastQuery = NoQuery

QueryNext ==
  \/ QueryInsert
  \/ QueryDelete
  \/ Count
  \/ SupportsNip
  \/ SupportsNips

SpecQuery == QueryInit /\ [][QueryNext]_vars

----------------------------------------------------------------------------
(* syncRelaysIn (the relay-sync seed of nocapd) next to the checker's      *)
(* upserts.  A call runs without interruption up to its next await:        *)
(* insertIfNotExists has no await between its test and its write, the      *)
(* batch loop awaits the item's call before it pushes the result, and      *)
(* upsert awaits exists() before it writes.                                *)

\* a record the checker writes after a check: the health fields are set
Checked(r, online) ==
  [url |-> r, online |-> online, network |-> parseRelayNetwork(r), info |-> "nip11",
   dns |-> "dns", geo |-> "geo", ssl |-> "ssl"]

CheckerRecords == { Checked(u, o) : u \in Urls, o \in {"true", "false"} }

\* syncRelaysIn: bootstrap('nocapd') has resolved with the urls; the
\* skeletal records are built and the batch call starts
SeedStart ==
  \E urls \in SeqsUpTo(Urls, MaxSeed) :
    /\ ~seedRun.running
    /\ seedCalls < MaxSeeds
    /\ seedCalls' = seedCalls + 1
    /\ seedRun' = [running |-> TRUE, relays |-> urls,
                   items |-> [i \in 1..Len(urls) |-> Skeletal(urls[i])],
                   got |-> <<>>, results |-> <<>>, itemErrs |-> <<>>, pre |-> store]
    /\ UNCHANGED << store, lastOp, calls, trawlerVars, statsVars, nocapdVars, backendVars, lastQuery,
                    upserts, upsertCalls >>

\* the batch loop of the seed calls insertIfNotExists with its next record
\* and awaits the call's promise
SeedItem ==
  LET out == relayOp(seedKey, store, Head(seedRun.items))
  IN /\ seedRun.running
     /\ seedRun.items # <<>>
     /\ seedRun.got = <<>>
     /\ store' = out.store
     /\ seedRun' = [seedRun EXCEPT !.items = Tail(@), !.got = << Awaited(store, out) >>]
     /\ UNCHANGED << lastOp, calls, trawlerVars, statsVars, nocapdVars, backendVars, lastQuery,
                     seedCalls, upserts, upsertCalls >>

\* the promise the loop awaits has settled: the loop pushes what it resolved
\* to
SeedPush ==
  LET acc == batchItem([results |-> seedRun.results, itemErrs |-> seedRun.itemErrs],
                       seedRun.got[1])
  IN /\ seedRun.got # <<>>
     /\ seedRun' = [seedRun EXCEPT !.got = <<>>, !.results = acc.results,
                                   !.itemErrs = acc.itemErrs]
     /\ UNCHANGED << store, lastOp, calls, trawlerVars, statsVars, nocapdVars, backendVars,
                     lastQuery, seedCalls, upserts, upsertCalls >>

\* the batch returns its result; syncRelaysIn logs its length and returns it
SeedReturn ==
  /\ seedRun.running
  /\ seedRun.items = <<>>
  /\ seedRun.got = <<>>
  /\ seedRun' = [seedRun EXCEPT !.running = FALSE]
  /\ UNCHANGED << store, lastOp, calls, trawlerVars, statsVars, nocapdVars, backendVars, lastQuery,
                  seedCalls, upserts, upsertCalls >>

\* a check handler calls upsert(RelayObj): validate, then exists(url),
\* whose value is awaited
UpsertCall ==
  \E o \in CheckerRecords :
    /\ upsertCalls < MaxUpserts
    /\ validate(o)
    /\ upsertCalls' = upsertCalls + 1
    /\ upserts' = upserts \cup {[id |-> upsertCalls + 1, arg |-> o,
                                 found |-> exists(store, o.url)]}
    /\ UNCHANGED << store, lastOp, calls, trawlerVars, statsVars, nocapdVars, backendVars, lastQuery,
                    seedRun, seedCalls >>

\* an upsert goes on after its await: update when exists() said true,
\* insert otherwise
UpsertResume ==
  \E p \in upserts :
    /\ upserts' = upserts \ {p}
    /\ store' = (IF p.found THEN update(store, p.arg) ELSE insert(store, p.arg)).store
    /\ UNCHANGED << lastOp, calls, trawlerVars, statsVars, nocapdVars, backendVars, lastQuery,
                    seedRun, seedCalls, upsertCalls >>

SeedInit ==
  /\ store = <<>>
  /\ lastOp = NoOp
  /\ calls = NoCalls
  /\ TrawlerIdle
  /\ NocapdIdle
  /\ BackendIdle
  /\ QueryIdle
  /\ StatsIdle
  /\ seedRun = NoSeed
  /\ seedCalls = 0
  /\ upserts = {}
  /\ upsertCalls = 0

SeedNext ==
  \/ SeedStart
  \/ SeedItem
  \/ SeedPush
  \/ SeedReturn
  \/ UpsertCall
  \/ UpsertResume

SpecSeed == SeedInit /\ [][SeedNext]_vars

----------------------------------------------------------------------------
(* The stats store: the actions that write pulses.  pulses is an object,  *)
(* relay -> array of pulses; a payload is an object of the same shape,     *)
(* modelled as the sequence of its entries in the order Object.keys lists  *)
(* them.                                                                   *)

PulseCap == 48

Pulse(date) == [date |-> date]

\* a payload array that fills a list to the cap: 48 pulses of one date
Big(date) == [i \in 1..PulseCap |-> Pulse(date)]

\* the arrays a payload carries for a relay
PulseLists == { << Pulse(1) >>, << Pulse(2), Pulse(1) >>, Big(2) }

\* an entry of a payload: a relay and the array it carries for it
PulseEntries == { [relay |-> r, pulses |-> l] : r \in Urls, l \in PulseLists }

\* the payloads: no relay, one relay, or two relays in either order
PulsePayloads ==
  {<<>>}
    \cup { << e >> : e \in PulseEntries }
    \cup { q \in { << e1, e2 >> : e1 \in PulseEntries, e2 \in PulseEntries } :
             q[1].relay # q[2].relay }

\* array.sort((h1, h2) => h1.date - h2.date): the pulses of the earliest
\* date in the order they have in the array (the sort is stable), then the
\* rest sorted in the same way
RECURSIVE sortByDate(_)
sortByDate(array) ==
  IF array = <<>> THEN <<>>
  ELSE LET dates == { array[i].date : i \in 1..Len(array) }
           first == CHOOSE d \in dates : \A e \in dates : d - e <= 0
           IsFirst(h) == h.date = first
           IsLater(h) == h.date # first
       IN SelectSeq(array, IsFirst) \o sortByDate(SelectSeq(array, IsLater))

\* the forEach of addPulses from entry i of the payload on.  For a relay
\* whose list has grown past 48 entries the callback goes on to
\* this.pulses.splice(0, delta); pulses is an object and has no splice, so
\* the call throws a TypeError and the forEach ends there.
RECURSIVE addPulsesFrom(_, _, _)
addPulsesFrom(p, payload, i) ==
  IF i > Len(payload) THEN [pulses |-> p, err |-> "none"]
  ELSE LET relay == payload[i].relay
           old == IF relay \in DOMAIN p THEN p[relay] ELSE <<>>
           new == sortByDate(old \o payload[i].pulses)
       IN IF Len(new) <= PulseCap
          THEN addPulsesFrom(put(p, relay, new), payload, i + 1)
          ELSE [pulses |-> put(p, relay, new), err |-> "TypeError"]

addPulses(p, payload) == addPulsesFrom(p, payload, 1)

\* the record of a call of the store: others tells that a call other than
\* addPulses has been made
StatCall(op, payload, err) ==
  [calls |-> lastAdd.calls + 1, op |-> op, payload |-> payload, pre |-> pulses,
   err |-> err, others |-> (lastAdd.others \/ op # "addPulses")]

AddPulses ==
  \E payload \in PulsePayloads :
    /\ lastAdd.calls < MaxAdds
    /\ LET out == addPulses(pulses, payload)
       IN /\ pulses' = out.pulses
          /\ lastAdd' = StatCall("addPulses", payload, out.err)
    /\ UNCHANGED << cacheVars, trawlerVars, nocapdVars, backendVars, lastQuery, seedVars >>

\* the object a payload stands for
payloadObject(payload) ==
  [r \in { payload[i].relay : i \in 1..Len(payload) } |->
     (CHOOSE e \in { payload[i] : i \in 1..Len(payload) } : e.relay = r).pulses]

\* setPulses(payload): this.pulses = payload
SetPulses ==
  \E payload \in PulsePayloads :
    /\ lastAdd.calls < MaxAdds
    /\ pulses' = payloadObject(payload)
    /\ lastAdd' = StatCall("setPulses", payload, "none")
    /\ UNCHANGED << cacheVars, trawlerVars, nocapdVars, backendVars, lastQuery, seedVars >>

\* addPulse(relay, payload): this.pulses[relay] = payload, replacing the
\* relay's list
AddPulse ==
  \E e \in PulseEntries :
    /\ lastAdd.calls < MaxAdds
    /\ pulses' = put(pulses, e.relay, e.pulses)
    /\ lastAdd' = StatCall("addPulse", << e >>, "none")
    /\ UNCHANGED << cacheVars, trawlerVars, nocapdVars, backendVars, lastQuery, seedVars >>

\* the properties of the state: all but the two that start as null are truthy
StateKeys ==
  {"history", "software", "nips", "countries", "continents",
   "oldestRelayStillOnline", "newestRelayOnline", "pulses"}

NullKeys == {"oldestRelayStillOnline", "newestRelayOnline"}

\* set(type, payload): nothing but a warning when this[type] is falsy or
\* missing, this[type] = payload otherwise.  Of the state only pulses is
\* followed here.
SetType ==
  \E type \in {"pulses", "nips", "newestRelayOnline", "relays"}, payload \in PulsePayloads :
    /\ lastAdd.calls < MaxAdds
    /\ pulses' = (IF type = "pulses" /\ type \in StateKeys \ NullKeys
                  THEN payloadObject(payload) ELSE pulses)
    /\ lastAdd' = StatCall("set", payload, "none")
    /\ UNCHANGED << cacheVars, trawlerVars, nocapdVars, backendVars, lastQuery, seedVars >>

StatsInit ==
  /\ store = <<>>
  /\ lastOp = NoOp
  /\ calls = NoCalls
  /\ TrawlerIdle
  /\ NocapdIdle
  /\ BackendIdle
  /\ QueryIdle
  /\ SeedIdle
  /\ pulses = <<>>
  /\ lastAdd = NoAdd

StatsNext ==
  \/ AddPulses
  \/ SetPulses
  \/ AddPulse
  \/ SetType

SpecStats == StatsInit /\ [][StatsNext]_vars

----------------------------------------------------------------------------
(* Properties of the trawler daemon (SpecTrawler). *)

\* the chunk size the configuration asks for: 50 when unset or zero
ChunkSize ==
  IF "trawl_concurrent_relays" \notin DOMAIN config THEN 50
  ELSE IF config["trawl_concurrent_relays"] = 0 THEN 50
  ELSE config["trawl_concurrent_relays"]

RECURSIVE Flatten(_)
Flatten(chunks) ==
  IF chunks = <<>> THEN <<>> ELSE Head(chunks) \o Flatten(Tail(chunks))

Payloads == [i \in 1..Len(addCalls) |-> addCalls[i].data.relays]

\* C1 (as claimed): populateTrawler pauses the worker before the first add,
\* and resumes it only after every add of the call has completed; the worker
\* is paused once and resumed once per call, and the worker takes no job of
\* the call while other chunks of the call are still not queued.
C1_ResumeAfterAllQueued ==
  /\ pauseCalls <= 1
  /\ resumeCalls <= 1
  /\ (addCalls # <<>> => pauseCalls = 1)
  /\ (resumeCalls = 1 => pauseCalls = 1 /\ pending = <<>>)
  /\ (mainPc = "done" => pauseCalls = 1 /\ resumeCalls = 1)
  /\ (active # <<>> => pending = <<>>)

\* C2: for n candidate urls and chunk size c > 0 (50 when unset or zero),
\* populateTrawler makes exactly ceil(n/c) add calls, named trawlBatch0,
\* trawlBatch1, ... in order; every chunk is non-empty and at most c long,
\* every chunk but the last is exactly c long, and the chunks concatenated
\* in job order are the input list.
C2_ChunksPartitionInput ==
  mainPc = "done" =>
    /\ ChunkSize > 0
    /\ Len(addCalls) = (Len(relays) + ChunkSize - 1) \div ChunkSize
    /\ \A i \in 1..Len(addCalls) :
         /\ addCalls[i].name = "trawlBatch" \o ToString(i - 1)
         /\ Len(Payloads[i]) >= 1
         /\ Len(Payloads[i]) <= ChunkSize
         /\ (i < Len(addCalls) => Len(Payloads[i]) = ChunkSize)
    /\ \A i, j \in 1..Len(addCalls) : i # j => addCalls[i].name # addCalls[j].name
    /\ Flatten(Payloads) = relays

\* a call that made several chunks, the last one shorter than the others
C2_Witness ==
  /\ mainPc = "done"
  /\ Len(addCalls) = 2
  /\ Len(addCalls[2].data.relays) < Len(addCalls[1].data.relays)

\* C3: at most one checkCache sweep is in progress at any time; an
\* invocation of maybeCheckRelays that finds busy set starts no sweep, and so
\* does one that finds the cache empty or the check not enabled.
C3_OneSweepAtATime ==
  /\ Cardinality(sweeps) <= 1
  /\ (sweeps # {} => busy)
  /\ (lastCheck.by # -1 =>
        /\ lastCheck.running <= 1
        /\ (lastCheck.busy => ~lastCheck.started)
        /\ (~lastCheck.seeded => ~lastCheck.started)
        /\ (~lastCheck.enabled => ~lastCheck.started))

\* a second invocation arrived while the first one's sweep was running:
\* the sweep has been started exactly once
C3_Witness ==
  /\ lastCheck.by # -1
  /\ lastCheck.busy
  /\ ~lastCheck.started
  /\ Cardinality(sweeps) = 1
  /\ sweepCount = 1

----------------------------------------------------------------------------
(* Properties of the relay cache (SpecCache). *)

\* the last call was the single-item operation op
Did(op) == lastOp.op = op

\* the argument of the last call names a url (a truthy one)
ArgHasUrl == Truthy(UrlOf(lastOp.arg))

\* the key of the argument's url
ArgKey == "Relay@" \o MurmurV3[lastOp.arg["url"]]

\* C4: insertIfNotExists on a url that already has a record returns
\* undefined and leaves the store as it was: the record and the number of
\* records are unchanged.
C4_InsertIfNotExistsIdempotent ==
  (Did("insertIfNotExists") /\ ArgHasUrl /\ ArgKey \in DOMAIN lastOp.pre) =>
    /\ store = lastOp.pre
    /\ lastOp.err = "none"
    /\ lastOp.ret = Undefined

\* the second of two calls with the same R: the record stored is R itself
C4_Witness ==
  /\ Did("insertIfNotExists")
  /\ ArgHasUrl
  /\ ArgKey \in DOMAIN lastOp.pre
  /\ lastOp.pre[ArgKey] = lastOp.arg
  /\ "online" \in DOMAIN lastOp.arg

\* C5 (as claimed): upsert(R) of a record with a url does what insert(R)
\* does when the url has no record, and what update(R) does when it has one,
\* in which case the call succeeds and R replaces the record under the same
\* key, the number of records unchanged.  The store is compared with the one
\* the write found, for the calls during whose await no other call has
\* created or removed the record.
C5_UpsertInsertsOrUpdates ==
  (Did("upsert") /\ ArgHasUrl /\ lastOp.found = (ArgKey \in DOMAIN lastOp.pre)) =>
    IF ArgKey \notin DOMAIN lastOp.pre
    THEN /\ store = insert(lastOp.pre, lastOp.arg).store
         /\ lastOp.err = insert(lastOp.pre, lastOp.arg).err
         /\ lastOp.ret = insert(lastOp.pre, lastOp.arg).ret
    ELSE /\ store = update(lastOp.pre, lastOp.arg).store
         /\ lastOp.err = update(lastOp.pre, lastOp.arg).err
         /\ lastOp.err = "none"
         /\ DOMAIN store = DOMAIN lastOp.pre
         /\ store[ArgKey] = lastOp.arg

\* C6 (as claimed): update, patch and delete of a url without a record are
\* rejected with a not-found error and leave the store unchanged; with a
\* record, update and patch succeed and delete removes exactly that record.
C6_MutationsNeedTheRecord ==
  ((Did("update") \/ Did("patch") \/ Did("delete")) /\ ArgHasUrl) =>
    IF ArgKey \notin DOMAIN lastOp.pre
    THEN lastOp.err = "NotFound" /\ store = lastOp.pre
    ELSE /\ lastOp.err = "none"
         /\ (Did("delete") =>
               /\ DOMAIN store = DOMAIN lastOp.pre \ {ArgKey}
               /\ \A k \in DOMAIN store : store[k] = lastOp.pre[k])

\* C7 (as claimed): insert, insertIfNotExists, update, patch and upsert of a
\* record without a url are rejected with the validation error, write
\* nothing, and validate before any access to the store.
C7_ValidatesFirst ==
  ((Did("insert") \/ Did("insertIfNotExists") \/ Did("update") \/ Did("patch")
      \/ Did("upsert")) /\ ~ArgHasUrl) =>
    /\ lastOp.err = "ValidationError"
    /\ store = lastOp.pre
    /\ lastOp.trace = <<"validate">>

\* C8 (as claimed): patch(P) of a url that has a record keeps the record's
\* url and key, gives every field P names other than url and '#' the value
\* P has for it, keeps every other field, and leaves all other records alone.
C8_PatchOverlays ==
  (Did("patch") /\ ArgHasUrl /\ ArgKey \in DOMAIN lastOp.pre) =>
    /\ DOMAIN store = DOMAIN lastOp.pre
    /\ \A k \in DOMAIN store \ {ArgKey} : store[k] = lastOp.pre[k]
    /\ store[ArgKey]["url"] = lastOp.pre[ArgKey]["url"]
    /\ \A f \in DOMAIN lastOp.arg \ {"url", "#"} :
         f \in DOMAIN store[ArgKey] /\ store[ArgKey][f] = lastOp.arg[f]
    /\ \A f \in DOMAIN lastOp.pre[ArgKey] \ DOMAIN lastOp.arg :
         f \in DOMAIN store[ArgKey] /\ store[ArgKey][f] = lastOp.pre[ArgKey][f]

\* the last call was batch[key](array) and has returned
Returned(key) == lastOp.op = "batch" /\ lastOp.key = key /\ lastOp.ret = "array"

\* the items of the last batch call whose single-item call resolved, in order
RECURSIVE Resolved(_)
Resolved(i) ==
  IF i > Len(lastOp.items) THEN <<>>
  ELSE (IF lastOp.itemErrs[i] = "none" THEN << lastOp.items[i] >> ELSE <<>>)
       \o Resolved(i + 1)

\* the last batch call had N items with pairwise distinct urls, exactly one
\* of them without a url
OneItemLacksUrl ==
  /\ Cardinality({ i \in 1..Len(lastOp.items) : ~Truthy(UrlOf(lastOp.items[i])) }) = 1
  /\ \A i, j \in 1..Len(lastOp.items) :
       (i # j /\ Truthy(UrlOf(lastOp.items[i])) /\ Truthy(UrlOf(lastOp.items[j])))
         => lastOp.items[i]["url"] # lastOp.items[j]["url"]

\* the items of the last batch call that added a record, replaced one
Added == { i \in 1..Len(lastOp.wrote) : lastOp.wrote[i] = "added" }

Replaced == { i \in 1..Len(lastOp.wrote) : lastOp.wrote[i] = "replaced" }

\* a batch call with an array does not raise; every item is tried, in order;
\* the result has one entry per item whose call succeeded (resolved), and an
\* item whose call raised is skipped: it leaves no entry and writes nothing
BatchSkipsFailures ==
  \A key \in batchKeys :
    Returned(key) =>
      /\ lastOp.err = "none"
      /\ Len(lastOp.itemErrs) = Len(lastOp.items)
      /\ Len(lastOp.wrote) = Len(lastOp.items)
      /\ Len(lastOp.results) = Len(Resolved(1))
      /\ \A i \in 1..Len(lastOp.items) :
           lastOp.itemErrs[i] # "none" => lastOp.wrote[i] = "none"

\* the last call was a batch call with an argument that is no array
NotAnArray == lastOp.op = "batch" /\ lastOp.arg # <<>>

\* a batch call with a non-array argument raises, and writes nothing
BatchNeedsArray ==
  NotAnArray =>
    /\ lastOp.err = "NotArray"
    /\ lastOp.ret = Undefined
    /\ lastOp.items = <<>>
    /\ store = lastOp.pre

\* C9 (as claimed): a batch call with an array never raises, skips the items
\* whose call raises without affecting the other items and returns one
\* entry per item that succeeded; in particular batch.insert of N records
\* with pairwise distinct urls, exactly one of them without a url, returns
\* N-1 entries and adds exactly N-1 records to the store; a batch call with
\* a non-array argument raises.
C9_BatchInsertAddsNMinusOne ==
  /\ BatchSkipsFailures
  /\ BatchNeedsArray
  /\ (Returned("insert") /\ OneItemLacksUrl) =>
       /\ Len(lastOp.results) = Len(lastOp.items) - 1
       /\ \A i \in 1..Len(lastOp.items) :
            IF Truthy(UrlOf(lastOp.items[i]))
            THEN lastOp.itemErrs[i] = "none"
            ELSE lastOp.itemErrs[i] = "ValidationError"
       /\ Cardinality(Added) = Len(lastOp.items) - 1

\* C9 (amended): as claimed, except for the number of records added:
\* batch.insert of N records with pairwise distinct urls, exactly one
\* without a url, returns N-1 entries and writes the record of each of the
\* N-1 urls, adding a record for the urls that have none when their turn
\* comes and overwriting in place the record of the others.
C9_BatchIsolatesFailures ==
  /\ BatchSkipsFailures
  /\ BatchNeedsArray
  /\ (Returned("insert") /\ OneItemLacksUrl) =>
       /\ Len(lastOp.results) = Len(lastOp.items) - 1
       /\ \A i \in 1..Len(lastOp.items) :
            IF Truthy(UrlOf(lastOp.items[i]))
            THEN /\ lastOp.itemErrs[i] = "none"
                 /\ lastOp.wrote[i] \in {"added", "replaced"}
            ELSE /\ lastOp.itemErrs[i] = "ValidationError"
                 /\ lastOp.wrote[i] = "none"
       /\ Cardinality(Added) + Cardinality(Replaced) = Len(lastOp.items) - 1

\* three records with two distinct urls, one of the three without a url,
\* inserted into a cache that has neither url when its turn comes: two
\* entries, two records added
C9_Witness ==
  /\ Returned("insert")
  /\ OneItemLacksUrl
  /\ Len(lastOp.items) = 3
  /\ Cardinality(Added) = 2
  /\ Len(lastOp.results) = 2

\* C10: the store holds at most one record per url, and every record is
\* stored under the key 'Relay@' + hash of its own url.
C10_OneRecordPerUrl ==
  /\ \A k \in DOMAIN store :
       /\ "url" \in DOMAIN store[k]
       /\ store[k]["url"] \in DOMAIN MurmurV3
       /\ k = "Relay@" \o MurmurV3[store[k]["url"]]
  /\ \A k1, k2 \in DOMAIN store :
       store[k1]["url"] = store[k2]["url"] => k1 = k2

\* a batch upsert has added a second relay to a cache that held one
C10_Witness ==
  /\ Cardinality(DOMAIN store) = 2
  /\ Returned("upsert")
  /\ Len(lastOp.results) = 1
  /\ lastOp.wrote = << "added" >>

----------------------------------------------------------------------------
(* Properties of nocapd (SpecNocapd). *)

\* C11 (as claimed): at startup the populator is invoked exactly once and
\* runs to completion before any recurring schedule is registered and before
\* the queue is resumed: while the startup run is in progress no schedule
\* exists, no tick has invoked the populator or syncRelaysIn, $q.resume() has
\* not been called, and the worker has taken no job.
C11_StartupPopulatorFirst ==
  /\ (ncPc = "populating" => populators = {0} /\ popCalls = 1)
  /\ (0 \in populators =>
        /\ ncPc = "populating"
        /\ schedules = {}
        /\ popTicks = 0
        /\ syncTicks = 0
        /\ taken = 0)

\* the number of jobs C12 allows at once, as claimed: the configured
\* concurrency when one is set, and 1 otherwise
ClaimedConcurrency ==
  IF "concurrency" \in DOMAIN ncConfig THEN ncConfig["concurrency"] ELSE 1

\* the same, a configured 0 counting as not set
TruthyConcurrency ==
  IF "concurrency" \in DOMAIN ncConfig /\ ncConfig["concurrency"] # 0
  THEN ncConfig["concurrency"]
  ELSE 1

\* a job that has been held for longer than the lock duration, its lock
\* still in place
Overdue(h) == h.lock /\ h.held > queueOpts.lockDuration

\* a job held for longer than the lock duration is considered abandoned: the
\* queue can take its lock, whatever else goes on; and the step that takes
\* the lock puts the job back in the queue, from where the worker takes it
\* as it takes any job
AbandonedIsRedelivered ==
  /\ [](\A h \in handlers : Overdue(h) => ENABLED Abandon(h))
  /\ [][\A h \in handlers :
          (Overdue(h) /\ [h EXCEPT !.lock = FALSE] \in handlers')
            => jobs' = Append(jobs, h.job)]_vars
  /\ [][(worker /\ taken' = taken + 1) =>
          /\ jobs # <<>>
          /\ \E h \in handlers' \ handlers : h.job = Head(jobs) /\ h.lock]_vars

----------------------------------------------------------------------------
(* Properties of CacheBase (SpecBackend). *)

\* C13 (as claimed): insertIfNotExists(key, value) on a key that does not
\* exist invokes the backend's insert primitive exactly once, with that key
\* and that value, and returns its result; on a key that exists it writes
\* nothing and returns undefined, which no insert returns.
C13_InsertIfNotExistsForwards ==
  lastCall.op = "relayInsertIfNotExists" =>
    IF ~relayExists(lastCall.pre, lastCall.key)
    THEN /\ lastCall.prims = << Prim("insert", lastCall.key, lastCall.value) >>
         /\ lastCall.ret = _relayInsert(lastCall.pre, lastCall.key, lastCall.value).ret
         /\ lastCall.ret # Undefined
    ELSE /\ lastCall.prims = <<>>
         /\ backend = lastCall.pre
         /\ lastCall.ret = Undefined

\* C14 (as claimed): upsert(key, value) invokes exactly one primitive with
\* the key and value given, update when the key exists (get(key) is
\* defined) and insert otherwise; update(key, value) likewise hands its key
\* and value to the backend's update primitive.
C14_UpsertAndUpdateForward ==
  /\ lastCall.op = "relayUpsert" =>
       lastCall.prims =
         << Prim(IF _relayGet(lastCall.pre, lastCall.key) # Undefined
                 THEN "update" ELSE "insert", lastCall.key, lastCall.value) >>
  /\ lastCall.op = "relayUpdate" =>
       /\ lastCall.err = "none"
       /\ lastCall.prims = << Prim("update", lastCall.key, lastCall.value) >>

----------------------------------------------------------------------------
(* Properties of the read helpers (SpecQuery). *)

\* C15: for every read method get.X other than get.one, count.X(args) is
\* the length of get.X(args) on the same store, and 0 when that result is
\* empty or absent; count.one does not exist; count.all() is the length of
\* get.allIds(), which is the number of records in the store.
C15_CountIsLengthOfGet ==
  /\ "one" \notin countKeys
  /\ countKeys = (getKeys \ {"db", "one"})
  /\ lastQuery.fn = "count" =>
       LET r == get(lastQuery.key, store, lastQuery.arg)
       IN /\ r.defined => lastQuery.n = Cardinality(r.rows)
          /\ ~r.defined => lastQuery.n = 0
          /\ lastQuery.key = "all" =>
               /\ lastQuery.n = Cardinality(get("allIds", store, NoArg).rows)
               /\ lastQuery.n = Cardinality(DOMAIN store)

\* C15's case: a count of some but not all of the records of the store
C15_Witness ==
  /\ lastQuery.fn = "count"
  /\ lastQuery.key = "network"
  /\ lastQuery.n = 1
  /\ Cardinality(DOMAIN store) = 2

\* the relays of the store whose info.supported_nips has n among its members
SupportingUrls(n) ==
  { store[k].url : k \in { j \in DOMAIN store :
        /\ "info" \in DOMAIN store[j]
        /\ "supported_nips" \in DOMAIN store[j].info
        /\ includes(store[j].info.supported_nips, n) } }

\* C16 (as claimed): supports.nip(url, n), url an ordinary string, is true
\* exactly when n is a member of the relay's info.supported_nips: with
\* [1, 11], nip(url, 11) is true and nip(url, 99) is false.
C16_SupportsNipIsMembership ==
  (lastQuery.fn = "supports.nip" /\ ~lastQuery.boxed) =>
    /\ lastQuery.err = "none"
    /\ lastQuery.ret = "true" <=> lastQuery.relay \in SupportingUrls(lastQuery.arg.nip)

\* C17 (as claimed): supports.nips(null, nipList, true) returns the urls of
\* the relays that support every NIP of a non-empty nipList; with
\* supportsAll false it returns the map from each NIP to its relays.
C17_SupportsNipsIntersects ==
  (lastQuery.fn = "supports.nips" /\ lastQuery.relay = "null" /\ lastQuery.nips # <<>>) =>
    /\ lastQuery.err = "none"
    /\ lastQuery.flag =>
         lastQuery.urls = { u \in Urls : \A i \in 1..Len(lastQuery.nips) :
                                           u \in SupportingUrls(lastQuery.nips[i]) }
    /\ ~lastQuery.flag => lastQuery.ret = "map"

----------------------------------------------------------------------------
(* Properties of the seed next to the checker (SpecSeed). *)

\* a stored record that holds health fields a check has written
IsChecked(r) == r.online # "null"

\* the keys of the records of s that carry url u
KeysOf(s, u) == { k \in DOMAIN s : s[k].url = u }

\* C18, for a store in which a put is visible to the next get (see put): a
\* seed interleaved in any order with checker upserts never replaces
\* an existing record: a step of the seed leaves every stored record as it
\* is, a record that holds checker-written health fields is never followed
\* by the skeletal record, and when a seed has ended the store holds
\* exactly one record for each of its urls.
C18_SeedNeverOverwrites ==
  [][ /\ seedRun' # seedRun =>
           \A k \in DOMAIN store : k \in DOMAIN store' /\ store'[k] = store[k]
      /\ \A k \in DOMAIN store :
           IsChecked(store[k]) => k \in DOMAIN store' /\ IsChecked(store'[k])
      /\ (seedRun.running /\ ~seedRun'.running) =>
           \A i \in 1..Len(seedRun.relays) :
             Cardinality(KeysOf(store', seedRun.relays[i])) = 1 ]_vars

\* C18's case: the seed started when the url was not stored, a checker
\* upsert wrote its record while the seed ran, and the seed's item for the
\* url then found it and wrote nothing
C18_Witness ==
  \E i \in 1..Len(seedRun.relays) :
    /\ relayId(seedRun.relays[i]) \notin DOMAIN seedRun.pre
    /\ relayId(seedRun.relays[i]) \in DOMAIN store
    /\ IsChecked(store[relayId(seedRun.relays[i])])
    /\ Len(seedRun.results) >= i
    /\ seedRun.results[i] = Undefined

----------------------------------------------------------------------------
(* Further properties of nocapd (SpecNocapd). *)

\* C19: a tick of the populator schedule invokes the populator without
\* waiting for an earlier invocation: as long as the schedule is registered
\* a tick can fire, whatever populator runs are in progress.
C19_TickDoesNotWait ==
  ("populator" \in schedules /\ popTicks < MaxPopTicks) => ENABLED PopulatorTick

\* C19's case: the run the first tick started is still in progress when
\* the second tick starts another
C19_Witness == {1, 2} \subseteq populators

----------------------------------------------------------------------------
(* Further properties of the trawler daemon (SpecTrawler). *)

\* C20 (as claimed): the busy flag of maybeCheckRelays is always released:
\* once the sweeps that were started have ended, by checkCache completing
\* or by its failing, busy is false again, so that a trigger on a seeded
\* store with checking enabled starts a new sweep.
C20_BusyAlwaysReleased ==
  /\ sweeps = {} => ~busy
  /\ (sweeps = {} /\ count_all(store) > 0 /\ useCache(config))
       => maybeCheckStarts(store, config, busy)

\* C21 (as claimed): populateTrawler never leaves the trawl worker paused:
\* when the call has ended, by returning or by throwing after its pause
\* (chunkArray throws on a negative chunk size), the worker has been resumed.
C21_WorkerResumedOnEveryPath ==
  mainPc \in {"done", "failed"} => ~workerPaused

----------------------------------------------------------------------------
(* Shutdown of nocapd (SpecNocapd). *)

\* C22 (as claimed): once stop() of nocapd has closed the relay cache, nothing
\* uses the cache any more: no tick of the populator schedule, no tick of
\* the syncRelaysIn schedule and no job handler reads or writes it after the
\* close, and no job handler is still running when the cache is closed
C22_NoCacheAccessAfterClose ==
  /\ lateAccess = {}
  /\ stopPc = "closed" => handlers = {}

(* Further properties of the relay cache (SpecCache). *)

\* C23 (as claimed): the list batch.insertIfNotExists returns, whose length
\* syncRelaysIn and maybeBootstrap report, has exactly one entry per relay
\* the call newly inserted: a relay already in the cache contributes no
\* entry, and a list of relays that are all known gives an empty list.
C23_OneEntryPerNewRelay ==
  Returned("insertIfNotExists") =>
    /\ Len(lastOp.results) = Cardinality(Added)
    /\ (\A i \in 1..Len(lastOp.items) :
          /\ Truthy(UrlOf(lastOp.items[i]))
          /\ lastOp.wrote[i] = "none") => lastOp.results = <<>>

----------------------------------------------------------------------------
(* Properties of the stats store (SpecStats). *)

\* the relays a payload names
PayloadRelays(payload) == { payload[i].relay : i \in 1..Len(payload) }

\* C24 (as claimed): after any sequence of addPulses calls, no other action
\* of the store having been called, every relay's
\* list is sorted by ascending date and holds at most 48 entries, every
\* call completes without error, and a call leaves the lists of the relays
\* its payload does not name as they were.
C24_PulsesSortedAndCapped ==
  ~lastAdd.others =>
    /\ \A r \in DOMAIN pulses :
         /\ Len(pulses[r]) <= 48
         /\ \A i \in 1..(Len(pulses[r]) - 1) : pulses[r][i].date <= pulses[r][i + 1].date
    /\ lastAdd.err = "none"
    /\ \A r \in DOMAIN lastAdd.pre :
         /\ r \in DOMAIN pulses
         /\ r \notin PayloadRelays(lastAdd.payload) => pulses[r] = lastAdd.pre[r]

====
